---- MODULE Spec2Model ----
(***************************************************************************)
(* A model of src/hotspot/share/gc/parallel/gcTaskManager.cpp:             *)
(* GCTaskQueue (the doubly-linked task queue), GCTaskManager (the monitor  *)
(* protocol between submitters and GC worker threads), IdleGCTask,         *)
(* WaitForBarrierGCTask and WaitHelper.                                    *)
(*                                                                         *)
(* Two groups of variables: the q* variables are a stand-alone             *)
(* GCTaskQueue pair driven by SpecQ; the others are the GCTaskManager and  *)
(* its threads, driven by Spec.                                            *)
(***************************************************************************)
EXTENDS Integers, Sequences, FiniteSets, TLC

\* ------------------------------------------------------------------ bounds
\* Number of task objects of the stand-alone queue model.
QMaxTasks == 3
\* GCTaskManager::_workers, the configured number of GC worker threads.
NWorkers == 2
\* Number of threads that submit work (add_task, execute_and_wait).
NSubmitters == 2
\* Number of tasks the submitters and task_idle_workers create in a run.
MaxTasks == 3
\* Largest number of ordinary tasks in a list given to execute_and_wait.
MaxBatch == 2
\* release_all_resources is not called again once this many tasks have been
\* delivered (each call makes get_task hand out noop tasks).
MaxDelivered == 3

\* ---------------------------------------------------------------- constants
\* The NULL pointer.
Null == 0
\* GCTaskManager::sentinel_worker(), (uint) -1 in the header.
SentinelWorker == -1

\* GCTask::Kind::kind
Kinds == {"unknown_task", "ordinary_task", "wait_for_barrier_task",
          "noop_task", "idle_task"}

\* ------------------------------------------------------------------ GCTask
\* GCTask::initialize: a task that is on no queue.
NewTask(k, a) ==
  [kind |-> k, affinity |-> a, older |-> Null, newer |-> Null]

is_barrier_task(t) == t.kind = "wait_for_barrier_task"
is_idle_task(t) == t.kind = "idle_task"

\* ------------------------------------------------------------- GCTaskQueue
\* GCTaskQueue::initialize
EmptyQueue == [insert_end |-> Null, remove_end |-> Null, length |-> 0]

\* GCTaskQueue::is_empty
is_empty(q) == q.insert_end = Null

\* Mutant of enqueue(GCTask*): the task also becomes the remove end of a
\* queue that is not empty.
enqueue_as_only_element(ts, q, task) ==
  LET ts1 == [ts EXCEPT ![task].newer = Null, ![task].older = q.insert_end]
      ts2 == IF is_empty(q) THEN ts1
             ELSE [ts1 EXCEPT ![q.insert_end].newer = task]
  IN [tasks |-> ts2,
      q |-> [insert_end |-> task,
             remove_end |-> task,
             length |-> q.length + 1]]

\* GCTaskQueue::enqueue(GCTask*): the task becomes the newest element.
enqueue(ts, q, task) ==
  LET ts1 == [ts EXCEPT ![task].newer = Null, ![task].older = q.insert_end]
      ts2 == IF is_empty(q) THEN ts1
             ELSE [ts1 EXCEPT ![q.insert_end].newer = task]
  IN [tasks |-> ts2,
      q |-> [insert_end |-> task,
             remove_end |-> IF is_empty(q) THEN task ELSE q.remove_end,
             length |-> q.length + 1]]

\* Mutant of enqueue(GCTaskQueue*): the newest element of the queue is not
\* linked to the oldest element of list.
enqueue_list_without_newer_link(ts, q, list) ==
  IF is_empty(list) THEN [tasks |-> ts, q |-> q, list |-> list]
  ELSE IF is_empty(q)
    THEN [tasks |-> ts,
          q |-> [insert_end |-> list.insert_end,
                 remove_end |-> list.remove_end,
                 length |-> list.length],
          list |-> EmptyQueue]
    ELSE [tasks |-> [ts EXCEPT ![list.remove_end].older = q.insert_end],
          q |-> [q EXCEPT !.insert_end = list.insert_end,
                          !.length = q.length + list.length],
          list |-> EmptyQueue]

\* GCTaskQueue::enqueue(GCTaskQueue*): splices list after the newest element
\* and empties list.
enqueue_list(ts, q, list) ==
  IF is_empty(list) THEN [tasks |-> ts, q |-> q, list |-> list]
  ELSE IF is_empty(q)
    THEN [tasks |-> ts,
          q |-> [insert_end |-> list.insert_end,
                 remove_end |-> list.remove_end,
                 length |-> list.length],
          list |-> EmptyQueue]
    ELSE [tasks |-> [ts EXCEPT ![list.remove_end].older = q.insert_end,
                               ![q.insert_end].newer = list.remove_end],
          q |-> [q EXCEPT !.insert_end = list.insert_end,
                          !.length = q.length + list.length],
          list |-> EmptyQueue]

\* Mutant of remove(): the new remove end keeps its older link.
remove_oldest_keeps_older(ts, q) ==
  LET result == q.remove_end
      nre == ts[result].newer
  IN [tasks |-> [ts EXCEPT ![result].newer = Null],
      q |-> [insert_end |-> IF nre = Null THEN Null ELSE q.insert_end,
             remove_end |-> nre,
             length |-> q.length - 1],
      result |-> result]

\* GCTaskQueue::remove(): unlinks the oldest element.
remove_oldest(ts, q) ==
  LET result == q.remove_end
      nre == ts[result].newer
      ts1 == IF nre = Null THEN ts ELSE [ts EXCEPT ![nre].older = Null]
  IN [tasks |-> [ts1 EXCEPT ![result].newer = Null],
      q |-> [insert_end |-> IF nre = Null THEN Null ELSE q.insert_end,
             remove_end |-> nre,
             length |-> q.length - 1],
      result |-> result]

\* Mutant of remove(GCTask*): the task newer than the removed one becomes the
\* remove end, whatever is older than the removed task.
remove_task_drops_older(ts, q, task) ==
  LET n == ts[task].newer
      o == ts[task].older
      ts1 == IF n # Null THEN [ts EXCEPT ![n].older = Null] ELSE ts
      ie == IF n # Null THEN q.insert_end ELSE o
      ts2 == IF o # Null THEN [ts1 EXCEPT ![o].newer = Null] ELSE ts1
  IN [tasks |-> [ts2 EXCEPT ![task].newer = Null, ![task].older = Null],
      q |-> [insert_end |-> ie, remove_end |-> n, length |-> q.length - 1],
      result |-> task]

\* Mutant of remove(GCTask*): the removed task keeps its older link.
remove_task_keeps_older(ts, q, task) ==
  LET n == ts[task].newer
      o == ts[task].older
      ts1 == IF n # Null THEN [ts EXCEPT ![n].older = o] ELSE ts
      ie == IF n # Null THEN q.insert_end ELSE o
      ts2 == IF o # Null THEN [ts1 EXCEPT ![o].newer = n] ELSE ts1
      re == IF o # Null THEN q.remove_end ELSE n
  IN [tasks |-> [ts2 EXCEPT ![task].newer = Null],
      q |-> [insert_end |-> ie, remove_end |-> re, length |-> q.length - 1],
      result |-> task]

\* GCTaskQueue::remove(GCTask*): unlinks an element at any position.
remove_task(ts, q, task) ==
  LET n == ts[task].newer
      o == ts[task].older
      ts1 == IF n # Null THEN [ts EXCEPT ![n].older = o] ELSE ts
      ie == IF n # Null THEN q.insert_end ELSE o
      ts2 == IF o # Null THEN [ts1 EXCEPT ![o].newer = n] ELSE ts1
      re == IF o # Null THEN q.remove_end ELSE n
  IN [tasks |-> [ts2 EXCEPT ![task].newer = Null, ![task].older = Null],
      q |-> [insert_end |-> ie, remove_end |-> re, length |-> q.length - 1],
      result |-> task]

\* Mutant of dequeue(): the newest element is removed.
dequeue_newest(ts, q) == remove_task(ts, q, q.insert_end)

\* GCTaskQueue::dequeue()
dequeue(ts, q) == remove_oldest(ts, q)

\* The for loop of GCTaskQueue::dequeue(uint): from element towards the
\* newest, the first task with this affinity, or Null at a barrier task or
\* at the end of the chain.
\* Mutant of the for loop: it does not stop at a barrier task.
RECURSIVE affinity_walk_past_barrier(_, _, _)
affinity_walk_past_barrier(ts, element, affinity) ==
  IF element = Null THEN Null
  ELSE IF ts[element].affinity = affinity THEN element
  ELSE affinity_walk_past_barrier(ts, ts[element].newer, affinity)

RECURSIVE affinity_walk(_, _, _)
affinity_walk(ts, element, affinity) ==
  IF element = Null THEN Null
  ELSE IF is_barrier_task(ts[element]) THEN Null
  ELSE IF ts[element].affinity = affinity THEN element
  ELSE affinity_walk(ts, ts[element].newer, affinity)

\* Mutant of dequeue(uint): the task found by the loop is not used.
dequeue_affinity_takes_oldest(ts, q, affinity) == remove_oldest(ts, q)

\* GCTaskQueue::dequeue(uint)
dequeue_affinity(ts, q, affinity) ==
  LET found == affinity_walk(ts, q.remove_end, affinity)
  IN IF found # Null THEN remove_task(ts, q, found)
     ELSE remove_oldest(ts, q)

\* ------------------------------------------------- reading a queue's chains
\* The tasks reached from task via .newer, task first (oldest to newest when
\* task is the remove end); fuel bounds the walk on a broken chain.
RECURSIVE walk_newer(_, _, _)
walk_newer(ts, task, fuel) ==
  IF task = Null \/ fuel = 0 THEN <<>>
  ELSE <<task>> \o walk_newer(ts, ts[task].newer, fuel - 1)

\* The tasks reached from task via .older, task first, as verify_length walks.
RECURSIVE walk_older(_, _, _)
walk_older(ts, task, fuel) ==
  IF task = Null \/ fuel = 0 THEN <<>>
  ELSE <<task>> \o walk_older(ts, ts[task].older, fuel - 1)

Reverse(s) == [i \in 1..Len(s) |-> s[Len(s) + 1 - i]]
Range(s) == {s[i] : i \in 1..Len(s)}

\* ------------------------- the monitors of manager and WaitHelper (SpecHelper)
\* The threads of one execute_and_wait: the submitter, the worker that runs
\* the barrier task and one more worker; every acquisition of a monitor is a
\* step of its own.
VARIABLES
  h_owner,         \* per monitor: the thread that owns it, or NoThread
  h_held,          \* per thread: the monitors it holds, in order of acquisition
  h_pc,            \* per thread: its position
  h_should_wait,   \* WaitHelper::_should_wait of the barrier task's helper
  h_busy_workers,  \* GCTaskManager::_busy_workers
  h_reset,         \* the argument of the submitter's wait_for call
  h_notified       \* notify() has run since construction or the last reset

hvars == <<h_owner, h_held, h_pc, h_should_wait, h_busy_workers, h_reset,
           h_notified>>

Threads == {"submitter", "barrier_worker", "worker"}
HWorkers == {"barrier_worker", "worker"}
Monitors == {"manager", "helper"}
NoThread == "none"

\* WaitHelper::WaitHelper sets should_wait; no monitor is held, no worker is
\* busy.
HInit ==
  /\ h_owner = [m \in Monitors |-> NoThread]
  /\ h_held = [t \in Threads |-> <<>>]
  /\ h_pc = [t \in Threads |-> IF t = "submitter" THEN "idle" ELSE "get_task"]
  /\ h_should_wait = TRUE
  /\ h_busy_workers = 0
  /\ h_reset = FALSE
  /\ h_notified = FALSE

\* ------------------------------------------- the stand-alone queue (SpecQ)
\* qtasks: the task objects (kind, affinity, older, newer); qmain: the queue;
\* qlist: a second queue, the argument of enqueue(GCTaskQueue*); qop: the last
\* operation, its argument, the task it returned and the queue it acted on
\* as it was before, oldest first.
VARIABLES qtasks, qmain, qlist, qop

qvars == <<qtasks, qmain, qlist, qop>>

QTaskIds == 1..QMaxTasks
QAffinities == {0, 1}
\* The tasks a client can build: ordinary tasks with or without an affinity
\* and barrier tasks.
QShapes == {NewTask("ordinary_task", 0), NewTask("ordinary_task", 1),
            NewTask("ordinary_task", SentinelWorker),
            NewTask("wait_for_barrier_task", SentinelWorker)}

QContents(ts, q) == walk_newer(ts, q.remove_end, QMaxTasks + 1)
QOnQueue == Range(QContents(qtasks, qmain)) \cup Range(QContents(qtasks, qlist))
QFree == QTaskIds \ QOnQueue

QInit ==
  /\ qtasks \in [QTaskIds -> QShapes]
  /\ qmain = EmptyQueue
  /\ qlist = EmptyQueue
  /\ qop = [name |-> "none", arg |-> Null, result |-> Null, before |-> <<>>]

\* The stand-alone queue while the manager runs: unused.
QUnused ==
  /\ qtasks = [t \in QTaskIds |-> NewTask("ordinary_task", SentinelWorker)]
  /\ qmain = EmptyQueue
  /\ qlist = EmptyQueue
  /\ qop = [name |-> "none", arg |-> Null, result |-> Null, before |-> <<>>]

\* queue->enqueue(task) for a task that is on no queue.
QEnqueue ==
  \E t \in QFree :
    LET r == enqueue(qtasks, qmain, t)
    IN /\ qtasks' = r.tasks
       /\ qmain' = r.q
       /\ qop' = [name |-> "enqueue", arg |-> t, result |-> Null,
                  before |-> QContents(qtasks, qmain)]
       /\ UNCHANGED qlist

\* list->enqueue(task): how a client builds the list it hands over.
QListEnqueue ==
  \E t \in QFree :
    LET r == enqueue(qtasks, qlist, t)
    IN /\ qtasks' = r.tasks
       /\ qlist' = r.q
       /\ qop' = [name |-> "list_enqueue", arg |-> t, result |-> Null,
                  before |-> QContents(qtasks, qlist)]
       /\ UNCHANGED qmain

\* queue->enqueue(list)
QEnqueueList ==
  LET r == enqueue_list(qtasks, qmain, qlist)
  IN /\ qtasks' = r.tasks
     /\ qmain' = r.q
     /\ qlist' = r.list
     /\ qop' = [name |-> "enqueue_list", arg |-> QContents(qtasks, qlist),
                result |-> Null, before |-> QContents(qtasks, qmain)]

\* queue->dequeue(); the code asserts the queue is not empty.
QDequeue ==
  /\ ~is_empty(qmain)
  /\ LET r == dequeue(qtasks, qmain)
     IN /\ qtasks' = r.tasks
        /\ qmain' = r.q
        /\ qop' = [name |-> "dequeue", arg |-> Null, result |-> r.result,
                   before |-> QContents(qtasks, qmain)]
  /\ UNCHANGED qlist

\* queue->dequeue(affinity); the code asserts the queue is not empty.
QDequeueAffinity ==
  /\ ~is_empty(qmain)
  /\ \E a \in QAffinities :
       LET r == dequeue_affinity(qtasks, qmain, a)
       IN /\ qtasks' = r.tasks
          /\ qmain' = r.q
          /\ qop' = [name |-> "dequeue_affinity", arg |-> a,
                     result |-> r.result,
                     before |-> QContents(qtasks, qmain)]
  /\ UNCHANGED qlist

\* --------------------------------------------------- the manager (Spec)
\* The fields of GCTaskManager:
VARIABLES
  created_workers, active_workers, idle_workers, busy_workers,
  delivered_tasks, completed_tasks, barriers, emptied_queue,
  blocking_worker, resource_flag,
  wait_helper,      \* GCTaskManager::_wait_helper._should_wait
  queue,            \* the GCTaskQueue behind GCTaskManager::_queue
  tasks,            \* the GCTask objects; should_wait is the barrier task's
                    \* WaitForBarrierGCTask::_wait_helper._should_wait
  UseGCTaskAffinity \* the VM flag
\* The threads:
VARIABLES
  pc, cur,          \* each GC worker: its position and the task it holds
  spc, fin, batch,  \* each submitter: its position, the barrier task of its
                    \* execute_and_wait and the tasks of the list it passed
  cpc, more_inactive_workers, cq
                    \* the thread that resizes the gang: its position and
                    \* the locals of task_idle_workers
\* Bookkeeping of the run:
VARIABLES
  at_call,          \* each submitter: the counters barriers and
                    \* delivered_tasks as they were when it called
                    \* execute_and_wait
  next_id,          \* number of task objects allocated so far
  enq_order,        \* the tasks in the order they entered the manager's queue
  noted,            \* the tasks for which note_completion has been called
  failed_assert     \* the message of the assert that has failed and stopped
                    \* the VM, "" while none has

mvars == <<created_workers, active_workers, idle_workers, busy_workers,
           delivered_tasks, completed_tasks, barriers, emptied_queue,
           blocking_worker, resource_flag, wait_helper, queue, tasks,
           UseGCTaskAffinity>>
wvars == <<pc, cur>>
svars == <<spc, fin, batch, at_call>>
cvars == <<cpc, more_inactive_workers, cq>>
gvars == <<next_id, enq_order, noted, failed_assert>>
vars == <<mvars, wvars, svars, cvars, gvars, qvars, hvars>>

Workers == 0..(NWorkers - 1)
Submitters == 1..NSubmitters
\* GCTaskManager::_noop_task, allocated by initialize().
noop_task == 1
TaskIds == 1..(MaxTasks + 1)

\* A task of the manager model: GCTask plus the barrier task's WaitHelper flag.
MTask(k, a) ==
  [kind |-> k, affinity |-> a, older |-> Null, newer |-> Null,
   should_wait |-> TRUE]

Min(a, b) == IF a < b THEN a ELSE b

\* GCTaskManager::is_blocked
is_blocked == blocking_worker # SentinelWorker

Contents(ts, q) == walk_newer(ts, q.remove_end, MaxTasks + 2)

\* Monitor::notify_all on the manager's monitor: every thread waiting on it
\* goes back to re-acquire the monitor and re-test its loop condition.
notify_all(p) ==
  [w \in Workers |->
     CASE p[w] = "gt_wait" -> "get_task"
       [] p[w] = "bar_wait" -> "do_it"
       [] p[w] = "idle_wait" -> "idle_check"
       [] OTHER -> p[w]]

\* GCTaskManager::GCTaskManager and initialize(): the counters are reset, the
\* manager is unblocked, _active_workers is ParallelGCThreads or 1 (dynamic
\* number of GC threads), and add_workers(true) creates that many threads.
MInit ==
  /\ active_workers \in {1, NWorkers}
  /\ created_workers = active_workers
  /\ idle_workers = 0
  /\ busy_workers = 0
  /\ delivered_tasks = 0
  /\ completed_tasks = 0
  /\ barriers = 0
  /\ emptied_queue = 0
  /\ blocking_worker = SentinelWorker
  /\ resource_flag = [w \in Workers |-> FALSE]
  /\ wait_helper = TRUE
  /\ queue = EmptyQueue
  /\ tasks = [t \in TaskIds |->
               IF t = noop_task THEN MTask("noop_task", SentinelWorker)
               ELSE MTask("unknown_task", SentinelWorker)]
  /\ UseGCTaskAffinity \in BOOLEAN
  /\ pc = [w \in Workers |-> IF w < created_workers THEN "get_task" ELSE "none"]
  /\ cur = [w \in Workers |-> Null]
  /\ spc = [s \in Submitters |-> "idle"]
  /\ fin = [s \in Submitters |-> Null]
  /\ batch = [s \in Submitters |-> {}]
  /\ at_call = [s \in Submitters |-> [barriers |-> 0, delivered |-> 0]]
  /\ cpc = "idle"
  /\ more_inactive_workers = 0
  /\ cq = EmptyQueue
  /\ next_id = 1
  /\ enq_order = <<>>
  /\ noted = {}
  /\ failed_assert = ""

\* ---------------------------------------------------------------- workers
\* GCTaskManager::should_release_resources
should_release_resources(which) == resource_flag[which]

\* Mutant of the loop condition of get_task: is_blocked() is not tested.
get_task_waits_unless_blocked(which) ==
  is_empty(queue) /\ ~should_release_resources(which)

\* Mutant of the loop condition of get_task: an empty queue is no reason to
\* wait.
get_task_waits_only_if_blocked(which) == is_blocked

\* The condition of the wait loop of get_task.
get_task_waits(which) ==
  is_blocked \/ (is_empty(queue) /\ ~should_release_resources(which))

\* Mutant of the test at the end of get_task: idle tasks are counted too.
is_counted_whatever_the_kind(task) == TRUE

\* get_task, the test before increment_busy_workers and
\* increment_delivered_tasks.
is_counted(task) == ~is_idle_task(task)

\* GCTaskManager::get_task(which), from acquiring the monitor (on entry or
\* after a wake-up) to waiting again or returning a task.
get_task(which) ==
  /\ failed_assert = ""
  /\ pc[which] = "get_task"
  /\ IF get_task_waits(which)
     THEN /\ pc' = [pc EXCEPT ![which] = "gt_wait"]
          /\ UNCHANGED <<mvars, cur>>
     ELSE LET r == IF is_empty(queue)
                   THEN [tasks |-> tasks, q |-> queue, result |-> noop_task]
                   ELSE IF UseGCTaskAffinity
                        THEN dequeue_affinity(tasks, queue, which)
                        ELSE dequeue(tasks, queue)
              counted == is_counted(tasks[r.result])
          IN /\ tasks' = r.tasks
             /\ queue' = r.q
             /\ blocking_worker' =
                  IF ~is_empty(queue) /\ is_barrier_task(tasks[r.result])
                  THEN which ELSE blocking_worker
             /\ busy_workers' = IF counted THEN busy_workers + 1
                                ELSE busy_workers
             /\ delivered_tasks' = IF counted THEN delivered_tasks + 1
                                   ELSE delivered_tasks
             /\ cur' = [cur EXCEPT ![which] = r.result]
             /\ pc' = [pc EXCEPT ![which] = "do_it"]
             /\ UNCHANGED <<created_workers, active_workers, idle_workers,
                            completed_tasks, barriers, emptied_queue,
                            resource_flag, wait_helper, UseGCTaskAffinity>>
  /\ UNCHANGED <<svars, cvars, gvars, qvars, hvars>>

\* do_it of an ordinary task or of the noop task: the work is outside the
\* manager and returns.
do_it_plain(which) ==
  /\ failed_assert = ""
  /\ pc[which] = "do_it"
  /\ tasks[cur[which]].kind \in {"ordinary_task", "noop_task"}
  /\ pc' = [pc EXCEPT ![which] = "note_completion"]
  /\ UNCHANGED <<mvars, cur, svars, cvars, gvars, qvars, hvars>>

\* Mutant of decrement_busy_workers: _busy_workers is left as it is.
decrement_busy_workers_skipped(busy) == busy

\* GCTaskManager::decrement_busy_workers: _busy_workers is a uint, kept here
\* as the signed number with the same 32 bits, so 0 - 1 is -1 (0xFFFFFFFF).
decrement_busy_workers(busy) == busy - 1

\* a > b for two uint values kept as signed numbers.
uint_gt(a, b) ==
  IF (a < 0) = (b < 0) THEN a > b ELSE a < 0

\* WaitForBarrierGCTask::do_it up to the release of the manager's monitor:
\* do_it_internal waits while busy_workers > 1.
barrier_do_it(which) ==
  /\ failed_assert = ""
  /\ pc[which] = "do_it"
  /\ is_barrier_task(tasks[cur[which]])
  /\ pc' = [pc EXCEPT ![which] =
              IF uint_gt(busy_workers, 1) THEN "bar_wait" ELSE "bar_notify"]
  /\ UNCHANGED <<mvars, cur, svars, cvars, gvars, qvars, hvars>>

\* WaitHelper::notify, called by WaitForBarrierGCTask::do_it after it has
\* released the manager's monitor: clears should_wait, wakes the waiter.
barrier_notify(which) ==
  /\ failed_assert = ""
  /\ pc[which] = "bar_notify"
  /\ tasks' = [tasks EXCEPT ![cur[which]].should_wait = FALSE]
  /\ spc' = [s \in Submitters |->
               IF spc[s] = "wf_wait" /\ fin[s] = cur[which]
               THEN "wait_for" ELSE spc[s]]
  /\ pc' = [pc EXCEPT ![which] = "note_completion"]
  /\ UNCHANGED <<created_workers, active_workers, idle_workers, busy_workers,
                 delivered_tasks, completed_tasks, barriers, emptied_queue,
                 blocking_worker, resource_flag, wait_helper, queue,
                 UseGCTaskAffinity>>
  /\ UNCHANGED <<cur, fin, batch, at_call, cvars, gvars, qvars, hvars>>

\* IdleGCTask::do_it from its entry: notify_all, then wait while the
\* manager's wait_helper says so, else decrement_idle_workers and return.
idle_do_it(which) ==
  /\ failed_assert = ""
  /\ pc[which] = "do_it"
  /\ is_idle_task(tasks[cur[which]])
  /\ IF wait_helper
     THEN /\ pc' = [notify_all(pc) EXCEPT ![which] = "idle_wait"]
          /\ UNCHANGED idle_workers
     ELSE /\ pc' = [notify_all(pc) EXCEPT ![which] = "note_completion"]
          /\ idle_workers' = idle_workers - 1
  /\ UNCHANGED <<created_workers, active_workers, busy_workers,
                 delivered_tasks, completed_tasks, barriers, emptied_queue,
                 blocking_worker, resource_flag, wait_helper, queue, tasks,
                 UseGCTaskAffinity>>
  /\ UNCHANGED <<cur, svars, cvars, gvars, qvars, hvars>>

\* Mutant of the wait loop of IdleGCTask::do_it: a woken worker leaves without
\* testing should_wait again.
idle_check_once(which) ==
  /\ failed_assert = ""
  /\ pc[which] = "idle_check"
  /\ IF FALSE
     THEN /\ pc' = [pc EXCEPT ![which] = "idle_wait"]
          /\ UNCHANGED idle_workers
     ELSE /\ pc' = [pc EXCEPT ![which] = "note_completion"]
          /\ idle_workers' = idle_workers - 1
  /\ UNCHANGED <<created_workers, active_workers, busy_workers,
                 delivered_tasks, completed_tasks, barriers, emptied_queue,
                 blocking_worker, resource_flag, wait_helper, queue, tasks,
                 UseGCTaskAffinity>>
  /\ UNCHANGED <<cur, svars, cvars, gvars, qvars, hvars>>

\* IdleGCTask::do_it after a wake-up: the while loop tests should_wait again.
idle_check(which) ==
  /\ failed_assert = ""
  /\ pc[which] = "idle_check"
  /\ IF wait_helper
     THEN /\ pc' = [pc EXCEPT ![which] = "idle_wait"]
          /\ UNCHANGED idle_workers
     ELSE /\ pc' = [pc EXCEPT ![which] = "note_completion"]
          /\ idle_workers' = idle_workers - 1
  /\ UNCHANGED <<created_workers, active_workers, busy_workers,
                 delivered_tasks, completed_tasks, barriers, emptied_queue,
                 blocking_worker, resource_flag, wait_helper, queue, tasks,
                 UseGCTaskAffinity>>
  /\ UNCHANGED <<cur, svars, cvars, gvars, qvars, hvars>>

\* Mutant of note_completion: the completed barrier is not counted.
barriers_after_completion_uncounted(which) == barriers

\* note_completion: increment_barriers() when the completing worker is the
\* blocking worker.
barriers_after_completion(which) ==
  IF blocking_worker = which THEN barriers + 1 ELSE barriers

\* GCTaskManager::note_completion(which), called by the worker's loop after
\* do_it of every task.  decrement_busy_workers asserts _busy_workers > 0: a
\* failed assert stops the VM of a debug build (stop), whose state is kept as
\* it was at the call; a product build has no asserts and goes on.
note_completion(which) ==
  /\ failed_assert = ""
  /\ pc[which] = "note_completion"
  /\ \E stop \in BOOLEAN :
       IF busy_workers = 0 /\ stop
       THEN /\ failed_assert' = "About to make a mistake"
            /\ UNCHANGED <<barriers, blocking_worker, completed_tasks,
                           busy_workers, emptied_queue, pc, cur, noted>>
       ELSE /\ barriers' = barriers_after_completion(which)
            /\ blocking_worker' = IF blocking_worker = which
                                  THEN SentinelWorker ELSE blocking_worker
            /\ completed_tasks' = completed_tasks + 1
            /\ busy_workers' = decrement_busy_workers(busy_workers)
            /\ emptied_queue' = IF busy_workers' = 0 /\ is_empty(queue)
                                THEN emptied_queue + 1 ELSE emptied_queue
            /\ pc' = [notify_all(pc) EXCEPT ![which] = "check_release"]
            /\ noted' = noted \cup {cur[which]}
            /\ cur' = [cur EXCEPT ![which] = Null]
            /\ UNCHANGED failed_assert
  /\ UNCHANGED <<created_workers, active_workers, idle_workers,
                 delivered_tasks, resource_flag, wait_helper, queue, tasks,
                 UseGCTaskAffinity>>
  /\ UNCHANGED <<svars, cvars, next_id, enq_order, qvars, hvars>>

\* The end of the worker's loop: if should_release_resources(which) then
\* note_release(which); then get_task again.
check_release(which) ==
  /\ failed_assert = ""
  /\ pc[which] = "check_release"
  /\ resource_flag' = [resource_flag EXCEPT ![which] = FALSE]
  /\ pc' = [pc EXCEPT ![which] = "get_task"]
  /\ UNCHANGED <<created_workers, active_workers, idle_workers, busy_workers,
                 delivered_tasks, completed_tasks, barriers, emptied_queue,
                 blocking_worker, wait_helper, queue, tasks,
                 UseGCTaskAffinity>>
  /\ UNCHANGED <<cur, svars, cvars, gvars, qvars, hvars>>

\* Monitor::wait returning without a notify_all: the worker re-acquires the
\* manager's monitor and re-tests its loop condition.
spurious_wakeup(which) ==
  /\ failed_assert = ""
  /\ pc[which] \in {"gt_wait", "bar_wait", "idle_wait"}
  /\ pc' = [pc EXCEPT ![which] =
              CASE pc[which] = "gt_wait" -> "get_task"
                [] pc[which] = "bar_wait" -> "do_it"
                [] OTHER -> "idle_check"]
  /\ UNCHANGED <<mvars, cur, svars, cvars, gvars, qvars, hvars>>

\* -------------------------------------------------------------- submitters
\* Task objects that task_idle_workers is about to allocate.
Reserved == IF cpc = "create_idle_tasks" THEN more_inactive_workers ELSE 0

\* The affinities given to new ordinary tasks: none or worker 0.  Only
\* dequeue(uint) reads a task's affinity, so without UseGCTaskAffinity one
\* value stands for all.
TaskAffinities ==
  IF UseGCTaskAffinity THEN {SentinelWorker, 0} ELSE {SentinelWorker}

\* Mutant of add_task: the waiting workers are not notified.
add_task_without_notify(s) ==
  /\ failed_assert = ""
  /\ spc[s] = "idle"
  /\ next_id + Reserved + 1 <= MaxTasks + 1
  /\ \E a \in TaskAffinities :
       LET t == next_id + 1
           r == enqueue([tasks EXCEPT ![t] = MTask("ordinary_task", a)],
                        queue, t)
       IN /\ tasks' = r.tasks
          /\ queue' = r.q
          /\ enq_order' = Append(enq_order, t)
          /\ next_id' = t
  /\ UNCHANGED pc
  /\ UNCHANGED <<created_workers, active_workers, idle_workers, busy_workers,
                 delivered_tasks, completed_tasks, barriers, emptied_queue,
                 blocking_worker, resource_flag, wait_helper,
                 UseGCTaskAffinity>>
  /\ UNCHANGED <<cur, svars, cvars, noted, failed_assert, qvars, hvars>>

\* GCTaskManager::add_task(task) with a new ordinary task.
add_task(s) ==
  /\ failed_assert = ""
  /\ spc[s] = "idle"
  /\ next_id + Reserved + 1 <= MaxTasks + 1
  /\ \E a \in TaskAffinities :
       LET t == next_id + 1
           r == enqueue([tasks EXCEPT ![t] = MTask("ordinary_task", a)],
                        queue, t)
       IN /\ tasks' = r.tasks
          /\ queue' = r.q
          /\ enq_order' = Append(enq_order, t)
          /\ next_id' = t
  /\ pc' = notify_all(pc)
  /\ UNCHANGED <<created_workers, active_workers, idle_workers, busy_workers,
                 delivered_tasks, completed_tasks, barriers, emptied_queue,
                 blocking_worker, resource_flag, wait_helper,
                 UseGCTaskAffinity>>
  /\ UNCHANGED <<cur, svars, cvars, noted, failed_assert, qvars, hvars>>

\* A list of n new ordinary tasks with the affinities affs, built with
\* list->enqueue(task) from the ids after first.
RECURSIVE build_list(_, _, _, _, _)
build_list(ts, list, first, n, affs) ==
  IF n = 0 THEN [tasks |-> ts, q |-> list]
  ELSE LET t == first + 1
           r == enqueue([ts EXCEPT ![t] = MTask("ordinary_task", affs[1])],
                        list, t)
       IN build_list(r.tasks, r.q, t, n - 1, Tail(affs))

\* GCTaskManager::execute_and_wait(list) up to the return of add_list: the
\* barrier task fin is created and enqueued on list, list is added to the
\* manager's queue under the monitor, notify_all.
execute_and_wait(s) ==
  /\ failed_assert = ""
  /\ spc[s] = "idle"
  /\ \E n \in 0..MaxBatch :
       /\ next_id + Reserved + n + 1 <= MaxTasks + 1
       /\ \E affs \in [1..n -> TaskAffinities] :
            LET l == build_list(tasks, EmptyQueue, next_id, n, affs)
                f == next_id + n + 1
                lf == enqueue([l.tasks EXCEPT
                                 ![f] = MTask("wait_for_barrier_task",
                                              SentinelWorker)],
                              l.q, f)
                r == enqueue_list(lf.tasks, queue, lf.q)
            IN /\ tasks' = r.tasks
               /\ queue' = r.q
               /\ enq_order' = enq_order \o Contents(lf.tasks, lf.q)
               /\ next_id' = f
               /\ fin' = [fin EXCEPT ![s] = f]
               /\ batch' = [batch EXCEPT ![s] = (next_id + 1)..(next_id + n)]
               /\ at_call' = [at_call EXCEPT
                                ![s] = [barriers |-> barriers,
                                        delivered |-> delivered_tasks]]
  /\ pc' = notify_all(pc)
  /\ spc' = [spc EXCEPT ![s] = "wait_for"]
  /\ UNCHANGED <<created_workers, active_workers, idle_workers, busy_workers,
                 delivered_tasks, completed_tasks, barriers, emptied_queue,
                 blocking_worker, resource_flag, wait_helper,
                 UseGCTaskAffinity>>
  /\ UNCHANGED <<cur, cvars, noted, failed_assert, qvars, hvars>>

\* WaitHelper::wait_for(true) on fin's helper, from acquiring its monitor (on
\* entry or after a wake-up): wait while should_wait, else reset and return.
wait_for(s) ==
  /\ failed_assert = ""
  /\ spc[s] = "wait_for"
  /\ IF tasks[fin[s]].should_wait
     THEN /\ spc' = [spc EXCEPT ![s] = "wf_wait"]
          /\ UNCHANGED tasks
     ELSE /\ spc' = [spc EXCEPT ![s] = "returned"]
          /\ tasks' = [tasks EXCEPT ![fin[s]].should_wait = TRUE]
  /\ UNCHANGED <<created_workers, active_workers, idle_workers, busy_workers,
                 delivered_tasks, completed_tasks, barriers, emptied_queue,
                 blocking_worker, resource_flag, wait_helper, queue,
                 UseGCTaskAffinity>>
  /\ UNCHANGED <<wvars, fin, batch, at_call, cvars, gvars, qvars, hvars>>

\* Monitor::wait in wait_for returning without a notify_all.
wait_for_spurious_wakeup(s) ==
  /\ failed_assert = ""
  /\ spc[s] = "wf_wait"
  /\ spc' = [spc EXCEPT ![s] = "wait_for"]
  /\ UNCHANGED <<mvars, wvars, fin, batch, at_call, cvars, gvars, qvars, hvars>>

\* The end of execute_and_wait: WaitForBarrierGCTask::destroy(fin).
destroy_fin(s) ==
  /\ failed_assert = ""
  /\ spc[s] = "returned"
  /\ spc' = [spc EXCEPT ![s] = "idle"]
  /\ fin' = [fin EXCEPT ![s] = Null]
  /\ batch' = [batch EXCEPT ![s] = {}]
  /\ at_call' = [at_call EXCEPT ![s] = [barriers |-> 0, delivered |-> 0]]
  /\ UNCHANGED <<mvars, wvars, cvars, gvars, qvars, hvars>>

\* ------------------------------------------- the thread resizing the gang
\* WorkerManager::add_workers(holder, active, total = workers, created, ...)
\* outside initialize(): the numbers of created workers it can return.  It
\* creates the threads created .. min(active, total) - 1 one by one and stops
\* at the first that cannot be created ("add_workers" does not guarantee any
\* additional workers).
add_workers_outcomes(created, active) ==
  {c \in created..NWorkers : c <= Min(active, NWorkers)} \cup {created}

\* Mutant of add_workers: _active_workers is left as requested.
active_workers_as_requested(created, active) == active

\* GCTaskManager::add_workers: _active_workers = MIN2(_created_workers,
\* _active_workers).
active_workers_after_add(created, active) == Min(created, active)

\* GCTaskManager::add_workers(false), called on its own.
add_workers ==
  /\ failed_assert = ""
  /\ cpc = "idle"
  /\ \E created \in add_workers_outcomes(created_workers, active_workers) :
       /\ created_workers' = created
       /\ active_workers' = active_workers_after_add(created, active_workers)
       /\ pc' = [w \in Workers |->
                   IF pc[w] = "none" /\ w < created THEN "get_task"
                   ELSE pc[w]]
  /\ UNCHANGED <<idle_workers, busy_workers, delivered_tasks, completed_tasks,
                 barriers, emptied_queue, blocking_worker, resource_flag,
                 wait_helper, queue, tasks, UseGCTaskAffinity>>
  /\ UNCHANGED <<cur, svars, cpc, more_inactive_workers, cq, gvars, qvars,
                 hvars>>

\* GCTaskManager::set_active_gang: n is what WorkerPolicy::calc_active_workers
\* answers; add_workers(false) creates the missing threads, or some of them.
set_active_gang ==
  /\ failed_assert = ""
  /\ cpc = "idle"
  /\ \E n \in 1..NWorkers :
       LET requested == Min(n, NWorkers)
       IN \E created \in add_workers_outcomes(created_workers, requested) :
            /\ created_workers' = created
            /\ active_workers' = active_workers_after_add(created, requested)
            /\ pc' = [w \in Workers |->
                        IF pc[w] = "none" /\ w < created THEN "get_task"
                        ELSE pc[w]]
  /\ UNCHANGED <<idle_workers, busy_workers, delivered_tasks, completed_tasks,
                 barriers, emptied_queue, blocking_worker, resource_flag,
                 wait_helper, queue, tasks, UseGCTaskAffinity>>
  /\ UNCHANGED <<cur, svars, cpc, more_inactive_workers, cq, gvars, qvars,
                 hvars>>

\* Mutant of reduced_active_workers: the requested number is kept.
reduced_active_workers_as_requested(more) == active_workers

\* task_idle_workers, the local reduced_active_workers: more is negative when
\* more workers are parked in idle tasks than the request leaves inactive.
reduced_active_workers(more) == active_workers + more

\* GCTaskManager::task_idle_workers, the block under the monitor.
task_idle_workers ==
  /\ failed_assert = ""
  /\ cpc = "idle"
  /\ LET more == created_workers - active_workers - idle_workers
     IN /\ next_id + more <= MaxTasks + 1
        /\ wait_helper' = TRUE
        /\ IF more < 0
           THEN /\ active_workers' = reduced_active_workers(more)
                /\ more_inactive_workers' = 0
           ELSE /\ more_inactive_workers' = more
                /\ UNCHANGED active_workers
  /\ cpc' = "create_idle_tasks"
  /\ UNCHANGED <<created_workers, idle_workers, busy_workers, delivered_tasks,
                 completed_tasks, barriers, emptied_queue, blocking_worker,
                 resource_flag, queue, tasks, UseGCTaskAffinity>>
  /\ UNCHANGED <<wvars, svars, cq, gvars, qvars, hvars>>

\* Mutant of the loop of task_idle_workers: no idle task is created.
build_no_idle_list(ts, list, first, n) == [tasks |-> ts, q |-> list]

\* n new idle tasks enqueued on list, from the ids after first.
RECURSIVE build_idle_list(_, _, _, _)
build_idle_list(ts, list, first, n) ==
  IF n = 0 THEN [tasks |-> ts, q |-> list]
  ELSE LET t == first + 1
           r == enqueue([ts EXCEPT
                           ![t] = MTask("idle_task", SentinelWorker)],
                        list, t)
       IN build_idle_list(r.tasks, r.q, t, n - 1)

\* task_idle_workers, outside the monitor: the loop that creates the idle
\* tasks and increments idle_workers, then the assert that
\* created_workers == active_workers + idle_workers (debug builds: stop).
create_idle_tasks ==
  /\ failed_assert = ""
  /\ cpc = "create_idle_tasks"
  /\ LET r == build_idle_list(tasks, EmptyQueue, next_id,
                              more_inactive_workers)
     IN /\ tasks' = r.tasks
        /\ cq' = r.q
  /\ next_id' = next_id + more_inactive_workers
  /\ idle_workers' = idle_workers + more_inactive_workers
  /\ cpc' = "add_list"
  /\ \E stop \in BOOLEAN :
       failed_assert' =
         IF created_workers # active_workers + idle_workers' /\ stop
         THEN "total workers should equal active + inactive"
         ELSE ""
  /\ UNCHANGED <<created_workers, active_workers, busy_workers,
                 delivered_tasks, completed_tasks, barriers, emptied_queue,
                 blocking_worker, resource_flag, wait_helper, queue,
                 UseGCTaskAffinity>>
  /\ UNCHANGED <<wvars, svars, more_inactive_workers, enq_order, noted,
                 qvars, hvars>>

\* task_idle_workers, its last call: add_list(q).
add_idle_list ==
  /\ failed_assert = ""
  /\ cpc = "add_list"
  /\ LET r == enqueue_list(tasks, queue, cq)
     IN /\ tasks' = r.tasks
        /\ queue' = r.q
        /\ cq' = r.list
  /\ enq_order' = enq_order \o Contents(tasks, cq)
  /\ pc' = notify_all(pc)
  /\ cpc' = "idle"
  /\ UNCHANGED <<created_workers, active_workers, idle_workers, busy_workers,
                 delivered_tasks, completed_tasks, barriers, emptied_queue,
                 blocking_worker, resource_flag, wait_helper,
                 UseGCTaskAffinity>>
  /\ UNCHANGED <<cur, svars, more_inactive_workers, next_id, noted,
                 failed_assert, qvars, hvars>>

\* GCTaskManager::release_idle_workers
release_idle_workers ==
  /\ failed_assert = ""
  /\ cpc = "idle"
  /\ wait_helper' = FALSE
  /\ pc' = notify_all(pc)
  /\ UNCHANGED <<created_workers, active_workers, idle_workers, busy_workers,
                 delivered_tasks, completed_tasks, barriers, emptied_queue,
                 blocking_worker, resource_flag, queue, tasks,
                 UseGCTaskAffinity>>
  /\ UNCHANGED <<cur, svars, cpc, more_inactive_workers, cq, gvars, qvars,
                 hvars>>

\* Mutant of the loop of release_all_resources: it runs up to workers().
flags_of_all_workers_set(flags, created) == [w \in Workers |-> TRUE]

\* The loop of GCTaskManager::release_all_resources:
\* set_resource_flag(i, true) for every i < created_workers().
flags_after_release(flags, created) ==
  [w \in Workers |-> IF w < created THEN TRUE ELSE flags[w]]

\* GCTaskManager::release_all_resources: no monitor, no notify.
release_all_resources ==
  /\ failed_assert = ""
  /\ cpc = "idle"
  /\ delivered_tasks < MaxDelivered
  /\ resource_flag' = flags_after_release(resource_flag, created_workers)
  /\ UNCHANGED <<created_workers, active_workers, idle_workers, busy_workers,
                 delivered_tasks, completed_tasks, barriers, emptied_queue,
                 blocking_worker, wait_helper, queue, tasks,
                 UseGCTaskAffinity>>
  /\ UNCHANGED <<wvars, svars, cpc, more_inactive_workers, cq, gvars, qvars,
                 hvars>>

\* ------------------------------------------------------------ the system
Init == MInit /\ QUnused /\ HInit

\* One step of the loop of worker w outside idle tasks, wake-ups without
\* notification left out.
LoopStep(w) ==
  \/ get_task(w)
  \/ do_it_plain(w)
  \/ barrier_do_it(w)
  \/ barrier_notify(w)
  \/ note_completion(w)
  \/ check_release(w)

\* The GC worker threads while no idle task is handed out.
ActiveWorkerNext ==
  \/ \E w \in Workers : LoopStep(w)
  \/ \E w \in Workers : spurious_wakeup(w)

\* The GC worker threads inside idle tasks.
IdleWorkerNext ==
  \/ \E w \in Workers : idle_do_it(w)
  \/ \E w \in Workers : idle_check(w)

\* The GC worker threads.
WorkerNext == ActiveWorkerNext \/ IdleWorkerNext

\* One step of the thread s that submits work.
SubmitterStep(s) ==
  \/ add_task(s)
  \/ execute_and_wait(s)
  \/ wait_for(s)
  \/ wait_for_spurious_wakeup(s)
  \/ destroy_fin(s)

\* The threads that submit work.
SubmitterNext == \E s \in Submitters : SubmitterStep(s)

\* The first of them alone.
OneSubmitterNext == SubmitterStep(1)

\* The thread that resizes the gang and parks and releases idle workers.
GangNext ==
  \/ set_active_gang
  \/ add_workers
  \/ task_idle_workers
  \/ create_idle_tasks
  \/ add_idle_list
  \/ release_idle_workers

\* Workers, one submitter and the resizing of the gang.
Next == WorkerNext \/ OneSubmitterNext \/ GangNext

Spec == Init /\ [][Next]_vars

\* One step of the loop of worker w while ordinary and idle tasks are handed
\* out and no barrier task is, wake-ups without notification left out.
IdleLoopStep(w) ==
  \/ get_task(w)
  \/ do_it_plain(w)
  \/ idle_do_it(w)
  \/ idle_check(w)
  \/ note_completion(w)
  \/ check_release(w)

\* Workers, add_task and the resizing of the gang.
NextIdle ==
  \/ \E w \in Workers : IdleLoopStep(w)
  \/ \E w \in Workers : spurious_wakeup(w)
  \/ add_task(1)
  \/ GangNext

SpecIdle == Init /\ [][NextIdle]_vars

\* The same under the scheduling the worker threads get; the submitter and
\* the thread that resizes the gang owe no step.
SpecIdleLive == SpecIdle /\ \A w \in Workers : WF_vars(IdleLoopStep(w))

\* Workers, one submitter and requests to release resources, with a gang of
\* fixed size.
NextResources ==
  ActiveWorkerNext \/ OneSubmitterNext \/ release_all_resources

SpecResources == Init /\ [][NextResources]_vars

\* Workers, execute_and_wait, the parking of idle workers and requests to
\* release resources: get_task hands out ordinary, barrier, idle and noop
\* tasks.
NextDispatch ==
  \/ WorkerNext
  \/ execute_and_wait(1)
  \/ wait_for(1)
  \/ wait_for_spurious_wakeup(1)
  \/ destroy_fin(1)
  \/ set_active_gang
  \/ task_idle_workers
  \/ create_idle_tasks
  \/ add_idle_list
  \/ release_all_resources

SpecDispatch == Init /\ [][NextDispatch]_vars

\* The same under the scheduling the worker threads get; the submitter and
\* the caller of release_all_resources owe no step.
SpecResourcesLive ==
  SpecResources /\ \A w \in Workers : WF_vars(LoopStep(w))

\* Workers and all submitters with a gang of fixed size; in SpecLive under
\* the scheduling the worker threads get: a worker that can take a step of
\* its loop takes it.  A wait on a monitor ends by notification; a wake-up
\* without one may happen but is never owed.
NextSubmitters == ActiveWorkerNext \/ SubmitterNext

SpecSubmitters == Init /\ [][NextSubmitters]_vars

SpecLive == SpecSubmitters /\ \A w \in Workers : WF_vars(LoopStep(w))

\* SpecSubmitters under the scheduling all its threads get: a worker that can
\* take a step of its loop takes it, and a submitter inside wait_for goes on.
SpecBarrierLive ==
  /\ SpecSubmitters
  /\ \A w \in Workers : WF_vars(LoopStep(w))
  /\ \A s \in Submitters : WF_vars(wait_for(s))

\* One step of the loop of worker w, inside or outside an idle task.
WorkerStep(w) == LoopStep(w) \/ idle_do_it(w) \/ idle_check(w)

\* Workers, execute_and_wait and the parking and release of idle workers,
\* wake-ups without notification left out.
NextBarrierIdle ==
  \/ \E w \in Workers : WorkerStep(w)
  \/ execute_and_wait(1)
  \/ wait_for(1)
  \/ destroy_fin(1)
  \/ set_active_gang
  \/ task_idle_workers
  \/ create_idle_tasks
  \/ add_idle_list
  \/ release_idle_workers

SpecBarrierIdle == Init /\ [][NextBarrierIdle]_vars

\* The same under the scheduling its threads get; the thread that resizes
\* the gang owes no step.
SpecBarrierIdleLive ==
  /\ SpecBarrierIdle
  /\ \A w \in Workers : WF_vars(WorkerStep(w))
  /\ WF_vars(wait_for(1))

\* The stand-alone queue: the manager of a fresh VM stays untouched.
MUnused ==
  /\ MInit
  /\ active_workers = NWorkers
  /\ UseGCTaskAffinity

InitQ == QInit /\ MUnused /\ HInit

MUnchanged == UNCHANGED <<mvars, wvars, svars, cvars, gvars, hvars>>

NextQ ==
  \/ QEnqueue /\ MUnchanged
  \/ QListEnqueue /\ MUnchanged
  \/ QEnqueueList /\ MUnchanged
  \/ QDequeue /\ MUnchanged
  \/ QDequeueAffinity /\ MUnchanged

SpecQ == InitQ /\ [][NextQ]_vars

\* ----------------------------------- the monitors of manager and WaitHelper
\* MutexLockerEx ml(m): thread t takes monitor m when no thread owns it.
Lock(t, m) ==
  /\ h_owner[m] = NoThread
  /\ h_owner' = [h_owner EXCEPT ![m] = t]
  /\ h_held' = [h_held EXCEPT ![t] = Append(@, m)]

\* The end of the MutexLockerEx scope, and the release inside Monitor::wait.
Unlock(t, m) ==
  /\ h_owner' = [h_owner EXCEPT ![m] = NoThread]
  /\ h_held' = [h_held EXCEPT ![t] = SelectSeq(@, LAMBDA x : x # m)]

\* Monitor::notify_all on monitor m: the waiters go on to retake the monitor.
h_notify_all(p, m) ==
  [t \in Threads |->
     IF m = "manager" /\ p[t] = "do_it_wait" THEN "do_it_relock"
     ELSE IF m = "helper" /\ p[t] = "wait_for_wait" THEN "wait_for_relock"
     ELSE p[t]]

\* get_task: the MutexLockerEx of line 657.
h_get_task_lock(t) ==
  /\ h_pc[t] = "get_task"
  /\ Lock(t, "manager")
  /\ h_pc' = [h_pc EXCEPT ![t] = "get_task_locked"]
  /\ UNCHANGED <<h_should_wait, h_busy_workers, h_reset, h_notified>>

\* get_task with a task on the queue: the worker becomes busy; the barrier
\* worker's task is the barrier task, the other worker's an ordinary task.
h_get_task(t) ==
  /\ h_pc[t] = "get_task_locked"
  /\ h_busy_workers' = h_busy_workers + 1
  /\ Unlock(t, "manager")
  /\ h_pc' = [h_pc EXCEPT
                ![t] = IF t = "barrier_worker" THEN "do_it"
                       ELSE "note_completion"]
  /\ UNCHANGED <<h_should_wait, h_reset, h_notified>>

\* WaitForBarrierGCTask::do_it: the MutexLockerEx on manager->lock().
h_do_it_lock ==
  /\ h_pc["barrier_worker"] = "do_it"
  /\ Lock("barrier_worker", "manager")
  /\ h_pc' = [h_pc EXCEPT !["barrier_worker"] = "do_it_internal"]
  /\ UNCHANGED <<h_should_wait, h_busy_workers, h_reset, h_notified>>

\* do_it_internal: wait while busy_workers > 1; then the end of the block of
\* do_it releases the manager's monitor.
h_do_it_internal ==
  /\ h_pc["barrier_worker"] = "do_it_internal"
  /\ Unlock("barrier_worker", "manager")
  /\ h_pc' = [h_pc EXCEPT
                !["barrier_worker"] = IF h_busy_workers > 1 THEN "do_it_wait"
                                      ELSE "notify"]
  /\ UNCHANGED <<h_should_wait, h_busy_workers, h_reset, h_notified>>

\* Monitor::wait in do_it_internal returns: the monitor is taken again.
h_do_it_relock ==
  /\ h_pc["barrier_worker"] = "do_it_relock"
  /\ Lock("barrier_worker", "manager")
  /\ h_pc' = [h_pc EXCEPT !["barrier_worker"] = "do_it_internal"]
  /\ UNCHANGED <<h_should_wait, h_busy_workers, h_reset, h_notified>>

\* WaitHelper::notify: the MutexLockerEx on the helper's monitor.
h_notify_lock ==
  /\ h_pc["barrier_worker"] = "notify"
  /\ Lock("barrier_worker", "helper")
  /\ h_pc' = [h_pc EXCEPT !["barrier_worker"] = "notify_locked"]
  /\ UNCHANGED <<h_should_wait, h_busy_workers, h_reset, h_notified>>

\* Mutant of WaitHelper::notify: the helper's monitor is not released.
h_notify_keeps_monitor ==
  /\ h_pc["barrier_worker"] = "notify_locked"
  /\ h_should_wait' = FALSE
  /\ h_notified' = TRUE
  /\ h_pc' = [h_notify_all(h_pc, "helper") EXCEPT
                !["barrier_worker"] = "note_completion"]
  /\ UNCHANGED <<h_owner, h_held, h_busy_workers, h_reset>>

\* WaitHelper::notify: set_should_wait(false), notify_all, release.
h_notify ==
  /\ h_pc["barrier_worker"] = "notify_locked"
  /\ h_should_wait' = FALSE
  /\ h_notified' = TRUE
  /\ Unlock("barrier_worker", "helper")
  /\ h_pc' = [h_notify_all(h_pc, "helper") EXCEPT
                !["barrier_worker"] = "note_completion"]
  /\ UNCHANGED <<h_busy_workers, h_reset>>

\* note_completion: the MutexLockerEx of line 710.
h_note_completion_lock(t) ==
  /\ h_pc[t] = "note_completion"
  /\ Lock(t, "manager")
  /\ h_pc' = [h_pc EXCEPT ![t] = "note_completion_locked"]
  /\ UNCHANGED <<h_should_wait, h_busy_workers, h_reset, h_notified>>

\* note_completion: decrement_busy_workers, notify_all, release.
h_note_completion(t) ==
  /\ h_pc[t] = "note_completion_locked"
  /\ h_busy_workers' = h_busy_workers - 1
  /\ Unlock(t, "manager")
  /\ h_pc' = [h_notify_all(h_pc, "manager") EXCEPT ![t] = "get_task"]
  /\ UNCHANGED <<h_should_wait, h_reset, h_notified>>

\* execute_and_wait: add_list takes the manager's monitor.
h_add_list_lock ==
  /\ h_pc["submitter"] = "idle"
  /\ Lock("submitter", "manager")
  /\ h_pc' = [h_pc EXCEPT !["submitter"] = "add_list_locked"]
  /\ UNCHANGED <<h_should_wait, h_busy_workers, h_reset, h_notified>>

\* execute_and_wait: add_list notifies and releases the manager's monitor;
\* then fin->wait_for(true) is called.
h_add_list ==
  /\ h_pc["submitter"] = "add_list_locked"
  /\ Unlock("submitter", "manager")
  /\ h_pc' = [h_notify_all(h_pc, "manager") EXCEPT !["submitter"] = "wait_for"]
  /\ h_reset' = TRUE
  /\ UNCHANGED <<h_should_wait, h_busy_workers, h_notified>>

\* A call of wait_for(reset) outside execute_and_wait.
h_call_wait_for(reset) ==
  /\ h_pc["submitter"] = "idle"
  /\ h_pc' = [h_pc EXCEPT !["submitter"] = "wait_for"]
  /\ h_reset' = reset
  /\ UNCHANGED <<h_owner, h_held, h_should_wait, h_busy_workers, h_notified>>

\* WaitHelper::wait_for: the MutexLockerEx on the helper's monitor.
h_wait_for_lock ==
  /\ h_pc["submitter"] = "wait_for"
  /\ Lock("submitter", "helper")
  /\ h_pc' = [h_pc EXCEPT !["submitter"] = "wait_for_test"]
  /\ UNCHANGED <<h_should_wait, h_busy_workers, h_reset, h_notified>>

\* WaitHelper::wait_for, the while loop: wait while should_wait; otherwise
\* reset the flag if asked to, release the monitor and return.
h_wait_for ==
  /\ h_pc["submitter"] = "wait_for_test"
  /\ Unlock("submitter", "helper")
  /\ IF h_should_wait
     THEN /\ h_pc' = [h_pc EXCEPT !["submitter"] = "wait_for_wait"]
          /\ UNCHANGED <<h_should_wait, h_notified>>
     ELSE /\ h_pc' = [h_pc EXCEPT !["submitter"] = "idle"]
          /\ h_should_wait' = IF h_reset THEN TRUE ELSE h_should_wait
          /\ h_notified' = IF h_reset THEN FALSE ELSE h_notified
  /\ UNCHANGED <<h_busy_workers, h_reset>>

\* Mutant of wait_for: the flag is tested once (if instead of while); a
\* woken waiter goes on without testing should_wait again.
h_wait_for_relock_without_test ==
  /\ h_pc["submitter"] = "wait_for_relock"
  /\ h_pc' = [h_pc EXCEPT !["submitter"] = "idle"]
  /\ h_should_wait' = IF h_reset THEN TRUE ELSE h_should_wait
  /\ h_notified' = IF h_reset THEN FALSE ELSE h_notified
  /\ UNCHANGED <<h_owner, h_held, h_busy_workers, h_reset>>

\* Monitor::wait in wait_for returns: the monitor is taken again and the
\* loop tests should_wait.
h_wait_for_relock ==
  /\ h_pc["submitter"] = "wait_for_relock"
  /\ Lock("submitter", "helper")
  /\ h_pc' = [h_pc EXCEPT !["submitter"] = "wait_for_test"]
  /\ UNCHANGED <<h_should_wait, h_busy_workers, h_reset, h_notified>>

\* Monitor::wait returns without a notification.
h_spurious_wakeup(t) ==
  /\ h_pc[t] \in {"do_it_wait", "wait_for_wait"}
  /\ h_pc' = [h_pc EXCEPT
                ![t] = IF h_pc[t] = "do_it_wait" THEN "do_it_relock"
                       ELSE "wait_for_relock"]
  /\ UNCHANGED <<h_owner, h_held, h_should_wait, h_busy_workers, h_reset,
                 h_notified>>

\* The manager and the stand-alone queue stay untouched.
HUnused == MUnused /\ QUnused

InitH == HInit /\ HUnused

HUnchanged == UNCHANGED <<mvars, wvars, svars, cvars, gvars, qvars>>

\* The steps of the submitter.
SubmitterStepH ==
  \/ h_add_list_lock /\ HUnchanged
  \/ h_add_list /\ HUnchanged
  \/ \E reset \in BOOLEAN : h_call_wait_for(reset) /\ HUnchanged
  \/ h_wait_for_lock /\ HUnchanged
  \/ h_wait_for /\ HUnchanged
  \/ h_wait_for_relock /\ HUnchanged

\* The steps of the worker that runs the barrier task: get_task, do_it,
\* note_completion.
BarrierWorkerStepH ==
  \/ h_get_task_lock("barrier_worker") /\ HUnchanged
  \/ h_get_task("barrier_worker") /\ HUnchanged
  \/ h_do_it_lock /\ HUnchanged
  \/ h_do_it_internal /\ HUnchanged
  \/ h_do_it_relock /\ HUnchanged
  \/ h_notify_lock /\ HUnchanged
  \/ h_notify /\ HUnchanged
  \/ h_note_completion_lock("barrier_worker") /\ HUnchanged
  \/ h_note_completion("barrier_worker") /\ HUnchanged

\* The steps of the other worker: get_task, note_completion.
WorkerStepH ==
  \/ h_get_task_lock("worker") /\ HUnchanged
  \/ h_get_task("worker") /\ HUnchanged
  \/ h_note_completion_lock("worker") /\ HUnchanged
  \/ h_note_completion("worker") /\ HUnchanged

NextH ==
  \/ SubmitterStepH
  \/ BarrierWorkerStepH
  \/ WorkerStepH
  \/ \E t \in Threads : h_spurious_wakeup(t) /\ HUnchanged

SpecHelper == InitH /\ [][NextH]_vars

\* A thread that runs keeps running, and a thread that asks for a monitor
\* again and again gets it.
SpecHelperLive ==
  /\ SpecHelper
  /\ WF_vars(SubmitterStepH)
  /\ WF_vars(BarrierWorkerStepH)
  /\ WF_vars(WorkerStepH)
  /\ SF_vars(h_wait_for_lock /\ HUnchanged)
  /\ SF_vars(h_wait_for_relock /\ HUnchanged)

\* ------------------------------------------------ claims on the manager
\* Worker w is between dequeuing a barrier task and its note_completion.
Holding(w) == cur[w] # Null /\ is_barrier_task(tasks[cur[w]])

\* The tasks on the manager's queue.
Queued == Range(Contents(tasks, queue))

\* C1: when the wait_for of a submitter's execute_and_wait(list) returns,
\* every task that was in list has been dequeued by a worker and that worker
\* has called note_completion for it.
C1_BatchCompletedAtReturn ==
  \A s \in Submitters : spc[s] = "returned" => batch[s] \subseteq noted

\* At most one worker holds a barrier task, and blocking_worker names that
\* worker exactly while it holds it.
OneBlockingWorker ==
  /\ Cardinality({w \in Workers : Holding(w)}) <= 1
  /\ \A w \in Workers : (blocking_worker = w) <=> Holding(w)
  /\ is_blocked <=> \E w \in Workers : Holding(w)

\* C2: from the get_task that hands worker w a barrier task until w's
\* note_completion clears blocking_worker, no get_task of any worker returns
\* a task (queued or noop, whatever the worker's resource_flag); at most one
\* worker holds a barrier task, and blocking_worker is not the sentinel
\* exactly while some worker is between those two points.
C2_BarrierBlocksDispatch ==
  [][/\ is_blocked =>
          \A w \in Workers : ~(pc[w] = "get_task" /\ pc'[w] = "do_it")
     /\ OneBlockingWorker
     /\ OneBlockingWorker']_vars

\* C2 witness: a worker holds a barrier task while another worker, asked to
\* release its resources, waits in get_task on an empty queue.
C2_Witness ==
  \E w \in Workers : \E v \in Workers \ {w} :
    /\ Holding(w)
    /\ pc[v] = "gt_wait"
    /\ resource_flag[v]
    /\ is_empty(queue)

\* C3: no task that entered the manager's queue after a barrier task is
\* dispatched before that barrier task has been dequeued and its worker has
\* called note_completion, with or without affinity dispatch: dequeue(uint)
\* never returns a task newer than a barrier task still on the queue.
C3_NoDispatchPastBarrier ==
  \A i \in 1..Len(enq_order) : \A j \in 1..Len(enq_order) :
    (/\ i < j
     /\ is_barrier_task(tasks[enq_order[i]])
     /\ enq_order[j] \notin Queued) => enq_order[i] \in noted

\* C3 witness: with affinity dispatch, a task with affinity 0 that entered
\* the queue after a barrier task has been dispatched, the barrier task
\* having been completed.
C3_Witness ==
  /\ UseGCTaskAffinity
  /\ \E i \in 1..Len(enq_order) : \E j \in 1..Len(enq_order) :
       /\ i < j
       /\ is_barrier_task(tasks[enq_order[i]])
       /\ enq_order[i] \in noted
       /\ tasks[enq_order[j]].affinity = 0
       /\ enq_order[j] \notin Queued

\* C4: for a worker executing a barrier task, busy_workers is 1 when the wait
\* loop of do_it has exited, when the worker calls the WaitHelper's notify()
\* and immediately before its note_completion decrements it.
C4_BusyIsOneAtBarrierCompletion ==
  \A w \in Workers :
    (Holding(w) /\ pc[w] \in {"bar_notify", "note_completion"})
      => busy_workers = 1

\* C5: no missed wake-up: under fair scheduling of the workers, with no worker
\* parked in an idle task, every task added by add_task or add_list is
\* eventually returned by some get_task, and no worker is left waiting on the
\* manager's monitor in get_task while the queue is not empty and the manager
\* is not blocked.
C5_NoMissedWakeup ==
  /\ \A t \in TaskIds : (t \in Queued) ~> (t \notin Queued)
  /\ [](\A w \in Workers : pc[w] = "gt_wait" => get_task_waits(w))

\* C5 witness: a worker has been handed a queued task by get_task while the
\* other worker waits in get_task.
C5_Witness ==
  \E w \in Workers : \E v \in Workers \ {w} :
    /\ pc[w] = "do_it"
    /\ cur[w] # noop_task
    /\ pc[v] = "gt_wait"
    /\ completed_tasks > 0

\* C6: delivered_tasks >= completed_tasks in every reachable state, the
\* worker's loop calling note_completion for every task it receives.
C6_DeliveredAtLeastCompleted == delivered_tasks >= completed_tasks

\* The manager is at rest: no thread is inside one of its operations and no
\* worker is between get_task and note_completion of a task other than an
\* idle task it is parked in.
Quiescent ==
  /\ cpc = "idle"
  /\ \A w \in Workers : pc[w] \in {"none", "gt_wait", "idle_wait"}

\* C7: at every quiescent point of the manager, after any sequence of
\* set_active_gang, task_idle_workers, release_idle_workers and idle-task
\* exits, created_workers = active_workers + idle_workers.
C7_SumAtQuiescence ==
  Quiescent => created_workers = active_workers + idle_workers

\* C7 as amended: created_workers = active_workers + idle_workers when
\* task_idle_workers has created its idle tasks and is about to hand them to
\* add_list.
C7_SumAfterTaskIdleWorkers ==
  cpc = "add_list" => created_workers = active_workers + idle_workers

\* C7 witness: task_idle_workers found a worker still parked from before and
\* a request for all workers, and reduced active_workers.
C7_Witness ==
  /\ cpc = "add_list"
  /\ idle_workers = 1
  /\ active_workers = NWorkers - 1
  /\ is_empty(cq)

\* C8: 0 <= busy_workers <= active_workers whenever the manager's monitor is
\* not held, and decrement_busy_workers is never reached with busy_workers = 0.
C8_BusyWorkersInRange ==
  /\ 0 <= busy_workers
  /\ busy_workers <= active_workers
  /\ failed_assert # "About to make a mistake"

\* ------------------------------------------------------- claims on SpecQ
\* The structural invariants of one GCTaskQueue.
QueueWellFormed(ts, q, fuel) ==
  LET fwd == walk_newer(ts, q.remove_end, fuel)
      bwd == walk_older(ts, q.insert_end, fuel)
  IN /\ (q.length = 0) <=> (q.insert_end = Null)
     /\ (q.insert_end = Null) <=> (q.remove_end = Null)
     /\ q.remove_end # Null => ts[q.remove_end].older = Null
     /\ q.insert_end # Null => ts[q.insert_end].newer = Null
     /\ \A t \in Range(fwd) :
          /\ ts[t].newer # Null => ts[ts[t].newer].older = t
          /\ ts[t].older # Null => ts[ts[t].older].newer = t
     /\ Len(fwd) = q.length
     /\ Len(bwd) = q.length
     /\ bwd = Reverse(fwd)

\* C9: after any sequence of enqueue(task), enqueue(list), dequeue() and
\* dequeue(affinity), each queue satisfies (length = 0) <=> (insert_end =
\* null) <=> (remove_end = null), remove_end.older = null, insert_end.newer =
\* null, adjacent nodes are linked consistently in both directions, and
\* length is the number of nodes reached from insert_end via older and from
\* remove_end via newer, the two traversals being reverses of each other.
C9_QueueInvariants ==
  /\ QueueWellFormed(qtasks, qmain, QMaxTasks + 1)
  /\ QueueWellFormed(qtasks, qlist, QMaxTasks + 1)

\* C9 witness: dequeue(affinity) has just unlinked an interior element of a
\* three-element queue.
C9_Witness ==
  /\ qop.name = "dequeue_affinity"
  /\ Len(qop.before) = 3
  /\ qop.result = qop.before[2]
  /\ qmain.length = 2

\* C10: the task returned by dequeue() or dequeue(affinity) has older = newer
\* = null and no task and no queue end refers to it; enqueue(T) then
\* dequeue() on an empty queue returns T and leaves the queue empty.
C10_DequeuedUnlinked ==
  qop.name \in {"dequeue", "dequeue_affinity"} =>
    /\ qop.result # Null
    /\ qtasks[qop.result].older = Null
    /\ qtasks[qop.result].newer = Null
    /\ \A t \in QTaskIds :
         qtasks[t].older # qop.result /\ qtasks[t].newer # qop.result
    /\ qop.result \notin {qmain.insert_end, qmain.remove_end,
                          qlist.insert_end, qlist.remove_end}
    /\ Len(qop.before) = 1 => qop.result = qop.before[1] /\ qmain = EmptyQueue

\* C10 witness: dequeue(affinity) returned the newest of three tasks, the one
\* whose older link was set.
C10_Witness ==
  /\ qop.name = "dequeue_affinity"
  /\ Len(qop.before) = 3
  /\ qop.result = qop.before[3]

\* The tasks that repeated dequeue() calls return, in the order returned.
RECURSIVE drain(_, _, _)
drain(ts, q, fuel) ==
  IF is_empty(q) \/ fuel = 0 THEN <<>>
  ELSE LET r == dequeue(ts, q)
       IN <<r.result>> \o drain(r.tasks, r.q, fuel - 1)

\* C11: enqueue(list) of a list of k tasks onto a queue of m tasks gives a
\* queue of m + k tasks from which repeated dequeue() returns the m tasks in
\* their order, then the k tasks in theirs, and leaves list empty (length 0,
\* both ends null); when k = 0 neither queue is changed.
C11_EnqueueListConcatenates ==
  [][qop'.name = "enqueue_list" =>
       LET m == QContents(qtasks, qmain)
           k == QContents(qtasks, qlist)
       IN /\ qmain'.length = Len(m) + Len(k)
          /\ drain(qtasks', qmain', QMaxTasks + 1) = m \o k
          /\ qlist' = EmptyQueue
          /\ Len(k) = 0 =>
               qmain' = qmain /\ qlist' = qlist /\ qtasks' = qtasks]_vars

\* C11 witness: a list of two tasks has been enqueued onto a queue of one.
C11_Witness ==
  /\ qop.name = "enqueue_list"
  /\ Len(qop.before) = 1
  /\ Len(qop.arg) = 2
  /\ qmain.length = 3

\* The task the affinity rule selects from the tasks before (oldest first):
\* the oldest task with affinity a that is older than every barrier task,
\* or else the oldest task.
AffinityChoice(before, a) ==
  LET cand == {i \in 1..Len(before) :
                 /\ qtasks[before[i]].affinity = a
                 /\ \A j \in 1..i : ~is_barrier_task(qtasks[before[j]])}
  IN IF cand = {} THEN before[1]
     ELSE before[CHOOSE i \in cand : \A j \in cand : i <= j]

\* C12: on a non-empty queue dequeue(a) returns the oldest task with affinity
\* a among the tasks older than the oldest barrier task (among all tasks when
\* there is no barrier task), and the oldest task of the queue when there is
\* no such task.
C12_AffinityDequeue ==
  qop.name = "dequeue_affinity" =>
    qop.result = AffinityChoice(qop.before, qop.arg)

\* C12 witness: dequeue(a) on two tasks, the older with another affinity and
\* the newer with affinity a, returned the newer.
C12_Witness ==
  /\ qop.name = "dequeue_affinity"
  /\ Len(qop.before) = 2
  /\ qtasks[qop.before[1]].kind = "ordinary_task"
  /\ qtasks[qop.before[1]].affinity \notin {qop.arg, SentinelWorker}
  /\ qtasks[qop.before[2]].affinity = qop.arg
  /\ qop.result = qop.before[2]

\* The queue b (oldest first) is [B_barrier, T_x, T_y]: a barrier task, a
\* task with affinity x and a task with another affinity.
BarrierThenXY(b, x) ==
  /\ Len(b) = 3
  /\ is_barrier_task(qtasks[b[1]])
  /\ qtasks[b[2]].kind = "ordinary_task" /\ qtasks[b[2]].affinity = x
  /\ qtasks[b[3]].kind = "ordinary_task" /\ qtasks[b[3]].affinity # x

\* C13: dequeue(affinity = x) on the queue [B_barrier, T_x, T_y] returns T_y.
C13_ReturnsTy ==
  (qop.name = "dequeue_affinity" /\ BarrierThenXY(qop.before, qop.arg))
    => qop.result = qop.before[3]

\* C13 as amended: dequeue(affinity = x) on the queue [B_barrier, T_x, T_y],
\* oldest first, returns B, the oldest task, because B stops the affinity
\* walk, and leaves [T_x, T_y].
C13_ReturnsBarrier ==
  (qop.name = "dequeue_affinity" /\ BarrierThenXY(qop.before, qop.arg))
    => /\ qop.result = qop.before[1]
       /\ QContents(qtasks, qmain) = <<qop.before[2], qop.before[3]>>

\* C13 witness: dequeue(x) has acted on a queue [B_barrier, T_x, T_y].
C13_Witness ==
  /\ qop.name = "dequeue_affinity"
  /\ BarrierThenXY(qop.before, qop.arg)
  /\ qmain.length = 2

\* Submitter s's wait_for has returned from an execute_and_wait of a list
\* [A, B], two worker threads existing.
ReturnedFromAB(s) ==
  /\ spc[s] = "returned"
  /\ Cardinality(batch[s]) = 2
  /\ created_workers = 2

\* C14: with two workers and a list [A, B] given to execute_and_wait, when
\* wait_for returns delivered_tasks >= 2 and barriers is one more than it was
\* at the call.
C14_BarriersCountedAtReturn ==
  \A s \in Submitters :
    ReturnedFromAB(s) =>
      /\ delivered_tasks >= 2
      /\ barriers = at_call[s].barriers + 1

\* C14 as amended: when wait_for returns, delivered_tasks >= 2 (A, B and the
\* barrier task have been delivered); barriers is incremented by the
\* note_completion of the worker that ran the barrier task, which follows
\* WaitHelper::notify: at the return either that note_completion has run and
\* barriers is larger than at the call, or the worker still holds the
\* barrier task, about to call note_completion, and the manager is blocked.
C14_BarrierCountedByNoteCompletion ==
  \A s \in Submitters :
    ReturnedFromAB(s) =>
      /\ delivered_tasks >= 2
      /\ delivered_tasks >= at_call[s].delivered + 3
      /\ IF fin[s] \in noted
         THEN barriers >= at_call[s].barriers + 1
         ELSE \E w \in Workers :
                /\ cur[w] = fin[s]
                /\ pc[w] = "note_completion"
                /\ blocking_worker = w

\* C14 witness: wait_for has returned while the worker that ran the barrier
\* task has not called note_completion yet.
C14_Witness ==
  \E s \in Submitters :
    /\ ReturnedFromAB(s)
    /\ fin[s] \notin noted
    /\ barriers = at_call[s].barriers

\* Every worker thread waits in get_task.
AllWaitInGetTask == \A w \in Workers : pc[w] \in {"gt_wait", "none"}

\* C15: when release_all_resources has been called while the queue is empty,
\* the manager is not blocked and all workers wait in get_task, each worker
\* eventually wakes, is handed the noop task, runs it, clears its
\* resource_flag in note_release and waits in get_task again.
C15_ReleaseReachesWaitingWorkers ==
  \A w \in Workers :
    (/\ AllWaitInGetTask
     /\ pc[w] = "gt_wait"
     /\ resource_flag[w]
     /\ is_empty(queue)
     /\ ~is_blocked) ~> (~resource_flag[w] /\ pc[w] = "gt_wait")

\* Worker w is inside the do_it of an idle task.
InIdleTask(w) ==
  /\ pc[w] \in {"do_it", "idle_wait", "idle_check"}
  /\ cur[w] # Null
  /\ is_idle_task(tasks[cur[w]])

\* C16: while the manager's wait_helper.should_wait is true, a worker inside
\* an idle task's do_it stays inside it and is handed no task, whatever
\* notify_all wakes it; so no task leaves the queue through a parked worker
\* before release_idle_workers.
C16_ParkedWhileShouldWait ==
  [][\A w \in Workers :
       (InIdleTask(w) /\ wait_helper) =>
         /\ cur'[w] = cur[w]
         /\ pc'[w] \in {"do_it", "idle_wait", "idle_check"}]_vars

\* C16 witness: a notify_all has woken a parked worker while a task is on the
\* queue and should_wait is still true.
C16_Witness ==
  \E w \in Workers :
    /\ InIdleTask(w)
    /\ pc[w] = "idle_check"
    /\ wait_helper
    /\ ~is_empty(queue)

\* The tasks handed to a worker by get_task, the noop task apart.
Dispatched ==
  {cur[w] : w \in {v \in Workers : cur[v] \notin {Null, noop_task}}}
    \cup noted

\* C17: concurrent add_task, add_list and get_task calls lose and duplicate
\* no task: no task is held by two workers, the tasks added are the tasks
\* still queued plus the tasks delivered, no task being both, and
\* delivered_tasks is the number of tasks delivered (2 once two concurrently
\* added tasks X and Y are both delivered).
C17_NoTaskLostOrDuplicated ==
  /\ \A i \in 1..Len(enq_order) : \A j \in 1..Len(enq_order) :
       i # j => enq_order[i] # enq_order[j]
  /\ \A w \in Workers : \A v \in Workers \ {w} :
       cur[w] \notin {Null, noop_task} => cur[w] # cur[v]
  /\ \A w \in Workers : cur[w] # Null => cur[w] \notin noted
  /\ Range(enq_order) = Queued \cup Dispatched
  /\ Queued \cap Dispatched = {}
  /\ queue.length = Cardinality(Queued)
  /\ delivered_tasks = Cardinality(Dispatched)

\* C17 witness: two ordinary tasks added by the two submitters have been
\* delivered, one to each worker, and nothing else has.
C17_Witness ==
  /\ \A s \in Submitters : spc[s] = "idle"
  /\ Len(enq_order) = 2
  /\ is_empty(queue)
  /\ \A w \in Workers : pc[w] = "do_it" /\ cur[w] \in Range(enq_order)
  /\ cur[0] # cur[1]
  /\ delivered_tasks = 2

\* The place of task t in the order of enqueueing.
Pos(t) == CHOOSE i \in 1..Len(enq_order) : enq_order[i] = t

Holds(t, m) == \E i \in 1..Len(h_held[t]) : h_held[t][i] = m

\* C18: no thread takes the manager's monitor while it holds the
\* WaitHelper's monitor, and no thread holds the helper's monitor from before
\* the manager's; the barrier worker holds no manager monitor in
\* WaitHelper::notify and the submitter holds none in wait_for.
C18_LockOrder ==
  /\ [](\A t \in Threads :
          /\ h_held[t] \in {<<>>, <<"manager">>, <<"helper">>,
                            <<"manager", "helper">>}
          /\ h_pc[t] \in {"notify", "notify_locked", "wait_for",
                          "wait_for_test", "wait_for_wait", "wait_for_relock"}
               => ~Holds(t, "manager"))
  /\ [][\A t \in Threads :
          (h_owner'["manager"] = t /\ h_owner["manager"] # t)
            => ~Holds(t, "helper")]_vars

\* C18 witness: the barrier worker is inside WaitHelper::notify with the
\* helper's monitor while the other worker holds the manager's monitor and
\* the submitter waits in wait_for.
C18_Witness ==
  /\ h_pc["barrier_worker"] = "notify_locked"
  /\ h_owner["helper"] = "barrier_worker"
  /\ h_owner["manager"] = "worker"
  /\ h_pc["submitter"] = "wait_for_wait"

\* The submitter is inside wait_for.
InWaitFor ==
  h_pc["submitter"] \in {"wait_for", "wait_for_test", "wait_for_wait",
                         "wait_for_relock"}

\* C19: should_wait is false exactly when notify() has run since
\* construction or the last reset; wait_for returns only then, a wait_for
\* that finds it so returns, a waiter is not left waiting once notify() has
\* run, and a wait_for entered or waiting after notify() does return; at the
\* return should_wait is true if reset was asked for and false if not.
C19_NoMissedNotify ==
  /\ [](/\ h_should_wait = ~h_notified
        /\ h_pc["submitter"] = "wait_for_wait" => ~h_notified)
  /\ [][/\ (InWaitFor /\ h_pc'["submitter"] = "idle") =>
             /\ h_notified
             /\ h_should_wait' = h_reset
        /\ (h_pc["submitter"] = "wait_for_test" /\ h_notified
              /\ h_pc'["submitter"] # h_pc["submitter"]) =>
             h_pc'["submitter"] = "idle"]_vars
  /\ (InWaitFor /\ h_notified) ~> (h_pc["submitter"] = "idle")

\* C19 witness: notify() ran while the submitter was waiting in
\* wait_for(false), which has taken the monitor again and finds should_wait
\* false.
C19_Witness ==
  /\ h_pc["submitter"] = "wait_for_test"
  /\ ~h_reset
  /\ h_notified
  /\ h_pc["barrier_worker"] = "note_completion"

\* The workers inside the do_it of an idle task and the idle tasks not yet
\* handed out: on the manager's queue or on the list task_idle_workers is
\* filling.
IdleParked == {w \in Workers : InIdleTask(w)}
IdleQueued == {t \in Queued : is_idle_task(tasks[t])}
IdleListed == {t \in Range(Contents(tasks, cq)) : is_idle_task(tasks[t])}

\* C21: a worker inside an idle task's do_it once should_wait is false
\* leaves do_it unless task_idle_workers sets should_wait again; a worker
\* leaves do_it only while should_wait is false and then idle_workers
\* decreases by exactly 1, and only then does it decrease; idle_workers is
\* never negative and counts every parked worker and every idle task not
\* yet handed out.
C21_ReleasedWorkersLeave ==
  /\ [](/\ idle_workers >= 0
        /\ idle_workers = Cardinality(IdleParked) + Cardinality(IdleQueued)
                            + Cardinality(IdleListed))
  /\ [][/\ \A w \in Workers :
             (InIdleTask(w) /\ ~InIdleTask(w)') =>
               /\ ~wait_helper
               /\ idle_workers' = idle_workers - 1
        /\ idle_workers' < idle_workers =>
             \E w \in Workers : InIdleTask(w) /\ ~InIdleTask(w)']_vars
  /\ \A w \in Workers :
       (InIdleTask(w) /\ ~wait_helper) ~> (~InIdleTask(w) \/ wait_helper)

\* Worker w completes a call of note_completion(w) in this step.
NoteCompletionStep(w) ==
  pc[w] = "note_completion" /\ pc'[w] = "check_release"

GetTaskStep(w) == pc[w] = "get_task" /\ pc'[w] = "do_it"

\* Sequence s without the element t.
Without(s, t) == SelectSeq(s, LAMBDA x : x # t)

\* C23: get_task(which) increments busy_workers and delivered_tasks by 1
\* each when it returns a task that is not an idle task and leaves both when
\* it returns an idle task; blocking_worker becomes which iff the task is a
\* barrier task; the task returned is taken off the queue, the others
\* staying in order, unless it is the noop task, which leaves the queue as
\* it is.
C23_GetTaskEffect ==
  [][\A w \in Workers :
       GetTaskStep(w) =>
         LET t == cur'[w]
         IN /\ IF is_idle_task(tasks[t])
               THEN /\ busy_workers' = busy_workers
                    /\ delivered_tasks' = delivered_tasks
               ELSE /\ busy_workers' = busy_workers + 1
                    /\ delivered_tasks' = delivered_tasks + 1
            /\ (blocking_worker' = w) <=> is_barrier_task(tasks[t])
            /\ ~is_barrier_task(tasks[t]) => blocking_worker' = blocking_worker
            /\ IF t = noop_task
               THEN queue' = queue /\ tasks' = tasks
               ELSE /\ t \in Queued
                    /\ Contents(tasks', queue')
                         = Without(Contents(tasks, queue), t)
                    /\ queue'.length = queue.length - 1]_vars

\* C23 witness: in one run a barrier task has been completed, a worker is
\* inside an idle task and the other worker has been handed the noop task.
C23_Witness ==
  /\ barriers >= 1
  /\ \E w \in Workers : \E v \in Workers :
       /\ InIdleTask(v)
       /\ pc[w] = "do_it"
       /\ cur[w] = noop_task

\* The tasks on list cq of task_idle_workers, oldest first.
IdleList == Contents(tasks, cq)

\* C24: task_idle_workers sets should_wait and computes, in the same
\* critical section, d = created_workers - active_workers - idle_workers; if
\* d >= 0 it creates exactly d idle tasks, adds d to idle_workers and leaves
\* active_workers; if d < 0 it creates none, leaves idle_workers and sets
\* active_workers to created_workers - idle_workers; nothing else changes the
\* three counters meanwhile; when the list is handed to add_list,
\* created_workers = active_workers + idle_workers, and add_list appends the
\* list to the queue.
C24_TaskIdleWorkers ==
  /\ [][/\ (cpc = "idle" /\ cpc' = "create_idle_tasks") =>
             LET d == created_workers - active_workers - idle_workers
             IN /\ wait_helper'
                /\ idle_workers' = idle_workers
                /\ created_workers' = created_workers
                /\ IF d >= 0
                   THEN /\ more_inactive_workers' = d
                        /\ active_workers' = active_workers
                   ELSE /\ more_inactive_workers' = 0
                        /\ active_workers' = created_workers - idle_workers
        /\ (cpc = "create_idle_tasks" /\ cpc' = "add_list") =>
             /\ idle_workers' = idle_workers + more_inactive_workers
             /\ Len(IdleList') = more_inactive_workers
             /\ \A i \in 1..Len(IdleList') : is_idle_task(tasks'[IdleList'[i]])
             /\ Range(IdleList') \cap Queued = {}
             /\ queue' = queue
             /\ active_workers' = active_workers
        /\ (cpc = "add_list" /\ cpc' = "idle") =>
             /\ created_workers = active_workers + idle_workers
             /\ Contents(tasks', queue') = Contents(tasks, queue) \o IdleList
             /\ idle_workers' = idle_workers
             /\ active_workers' = active_workers
        /\ (cpc # "idle" /\ cpc' = cpc) =>
             /\ idle_workers' = idle_workers
             /\ active_workers' = active_workers
             /\ created_workers' = created_workers
             /\ wait_helper' = wait_helper]_vars
  /\ [](cpc = "add_list" =>
          /\ created_workers = active_workers + idle_workers
          /\ Len(IdleList) = more_inactive_workers)

\* C24 witness: task_idle_workers found one worker neither active nor idle
\* and is about to hand its list of one idle task to add_list.
C24_Witness ==
  /\ cpc = "add_list"
  /\ more_inactive_workers = 1
  /\ Len(IdleList) = 1
  /\ idle_workers = 1
  /\ active_workers = NWorkers - 1

\* C25: active_workers <= created_workers <= workers in every state;
\* created_workers never decreases; and in a state where created_workers is
\* min(workers, active_workers) already, add_workers leaves created_workers
\* and active_workers as they are.
C25_WorkerCounts ==
  /\ [](/\ active_workers <= created_workers
        /\ created_workers <= NWorkers
        /\ created_workers = Min(NWorkers, active_workers) =>
             \A c \in add_workers_outcomes(created_workers, active_workers) :
               /\ c = created_workers
               /\ active_workers_after_add(c, active_workers)
                    = active_workers)
  /\ [][created_workers' >= created_workers]_vars

\* C25 witness: all threads exist, set_active_gang has asked for one active
\* worker and task_idle_workers has parked the other.
C25_Witness ==
  /\ created_workers = NWorkers
  /\ active_workers = 1
  /\ idle_workers = NWorkers - 1
  /\ cpc = "idle"
  /\ \E w \in Workers : InIdleTask(w)

C27_BarrierProtocolLive ==
  /\ \A s \in Submitters :
       (spc[s] \in {"wait_for", "wf_wait"}) ~> (spc[s] = "returned")
  /\ is_blocked ~> ~is_blocked

\* The premise of C27 about the workers: some created worker is outside the
\* idle tasks.
C27_SomeWorkerNotParked == \E w \in Workers : pc[w] # "none" /\ ~InIdleTask(w)

\* What is left of C27 once a VM stopped by a failed assert is set aside.
C27_ReturnsUnlessStopped ==
  (spc[1] \in {"wait_for", "wf_wait"}) ~> (spc[1] = "returned" \/ failed_assert # "")

\* The workers that returned from get_task with an ordinary, barrier or noop
\* task and have not called note_completion for it yet.
HoldersOfCountedTask ==
  {w \in Workers : cur[w] # Null /\ ~is_idle_task(tasks[cur[w]])}

\* C28: whenever the monitor is free (between two actions), busy_workers is
\* the number of workers holding a non-idle task whose completion is not
\* noted yet; workers inside idle tasks are not counted.
C28_BusyWorkersCount == busy_workers = Cardinality(HoldersOfCountedTask)

\* What is left of C28 while no idle task has been noted as completed.
C28_CountUntilIdleNoted ==
  (\A t \in noted : ~is_idle_task(tasks[t]))
    => busy_workers = Cardinality(HoldersOfCountedTask)

\* C29: dequeue(affinity) removes exactly one task and keeps the others in
\* their order: the queue after the call, read from the oldest to the newest,
\* is the queue before the call without the returned task, read from the
\* newest to the oldest it is the reverse of that, and length is 1 less,
\* whether the returned task was the oldest, the newest or in between.
C29_DequeueAffinityKeepsOrder ==
  qop.name = "dequeue_affinity" =>
    /\ \E i \in 1..Len(qop.before) :
         /\ qop.result = qop.before[i]
         /\ QContents(qtasks, qmain) =
              SubSeq(qop.before, 1, i - 1)
                \o SubSeq(qop.before, i + 1, Len(qop.before))
    /\ QContents(qtasks, qmain) = Without(qop.before, qop.result)
    /\ walk_older(qtasks, qmain.insert_end, QMaxTasks + 1) =
         Reverse(Without(qop.before, qop.result))
    /\ qmain.length = Len(qop.before) - 1

\* C29 witness: dequeue(affinity) took the middle one of three tasks and the
\* oldest and the newest are left, in this order.
C29_Witness ==
  /\ qop.name = "dequeue_affinity"
  /\ Len(qop.before) = 3
  /\ qop.result = qop.before[2]
  /\ QContents(qtasks, qmain) = <<qop.before[1], qop.before[3]>>

\* dequeue(affinity) has returned the oldest task of a longer queue.
C29_OldestTaken ==
  /\ qop.name = "dequeue_affinity"
  /\ Len(qop.before) > 1
  /\ qop.result = qop.before[1]

\* dequeue(affinity) has returned the newest task of a longer queue.
C29_NewestTaken ==
  /\ qop.name = "dequeue_affinity"
  /\ Len(qop.before) > 1
  /\ qop.result = qop.before[Len(qop.before)]

\* Everything but resource_flag: the other fields of the manager, the queue,
\* and the position of every thread, which a notify_all would change for the
\* threads waiting on the monitor.
AllButResourceFlag ==
  <<created_workers, active_workers, idle_workers, busy_workers,
    delivered_tasks, completed_tasks, barriers, emptied_queue,
    blocking_worker, wait_helper, queue, tasks, UseGCTaskAffinity,
    wvars, svars, cvars, gvars, qvars, hvars>>

\* A step that sets a flag is a call of release_all_resources, a step that
\* clears one is worker w passing the end of its loop with its flag set.
SetsAFlag == \E w \in Workers : ~resource_flag[w] /\ resource_flag'[w]
ClearsAFlag == \E w \in Workers : resource_flag[w] /\ ~resource_flag'[w]

\* C30: release_all_resources sets resource_flag[i] for every
\* i < created_workers and changes nothing else: no other flag, no field of
\* the manager, no queue, no position of a thread (no notification); a second
\* call right after it changes nothing; note_release(which) clears the flag
\* of which and leaves every other flag.
C30_ReleaseAllResourcesFrame ==
  [][/\ SetsAFlag =>
          /\ \A w \in Workers :
               resource_flag'[w] = (w < created_workers \/ resource_flag[w])
          /\ UNCHANGED AllButResourceFlag
          /\ flags_after_release(resource_flag', created_workers')
               = resource_flag'
     /\ ClearsAFlag =>
          \E w \in Workers :
            /\ pc[w] = "check_release" /\ pc'[w] = "get_task"
            /\ resource_flag' = [resource_flag EXCEPT ![w] = FALSE]
    ]_vars

\* C30 witness: release_all_resources was called with fewer workers created
\* than workers(): the created worker has its flag set while it waits in
\* get_task, the one not created has none.
C30_Witness ==
  /\ created_workers < NWorkers
  /\ \A w \in Workers : resource_flag[w] = (w < created_workers)
  /\ pc[0] = "gt_wait"

\* After release_all_resources one worker has called note_release and the
\* other has not.
C30_OneFlagCleared ==
  /\ created_workers = NWorkers
  /\ ~resource_flag[0]
  /\ resource_flag[1]

====
